---- MODULE Spec2Model ----
(***************************************************************************)
(* Population units of the wraith game engine (package wge).               *)
(*                                                                         *)
(* A Civilian is a value {qty.loyal, qty.rebel, techLevel}.  The model     *)
(* covers its constructor, Merge, and the stand-alone demographic rate     *)
(* functions naturalBirthRate and naturalDeathRate.                        *)
(*                                                                         *)
(* Three specifications share the variables:                               *)
(*   Spec       an owner holds one unit u, creates it with NewCivilian and *)
(*              replaces it by the result of Merge calls;                  *)
(*   SpecMerge  one Merge call on a pair of operands drawn from a bounded  *)
(*              set of units;                                              *)
(*   SpecRates  one call of a rate function on arguments drawn from        *)
(*              bounded sets.                                              *)
(***************************************************************************)
EXTENDS Integers, FiniteSets, Sequences, TLC

VARIABLES
    u,      \* the unit the owner holds / the result of the last Merge
    p,      \* receiver of the last Merge call
    q,      \* argument of the last Merge call
    op,     \* the last operation
    total,  \* sum of the populations of the units merged into u so far
    args,   \* arguments of the rate-function call
    ret,    \* outcome of the rate-function or decoding call
    third,  \* third unit of a grouped merge
    other,  \* result of the second grouping of a grouped merge
    data    \* the bytes handed to UnmarshalJSON

vars == <<u, p, q, op, total, args, ret, third, other, data>>

----------------------------------------------------------------------------
(* Bounds of the model *)

\* Merge is not called in Spec once the merged population would exceed this.
MaxPop == 513

(* Program constants *)

\* highest tech level
MaxTech == 10

TechLevels == 0 .. MaxTech

----------------------------------------------------------------------------
(* Go integer arithmetic *)

Abs(x) == IF x < 0 THEN -x ELSE x

\* Go's integer division truncates toward zero.
GoDiv(a, b) ==
    LET m == Abs(a) \div Abs(b)
    IN  IF (a < 0) # (b < 0) THEN -m ELSE m

Min(a, b) == IF a < b THEN a ELSE b
Max(a, b) == IF a < b THEN b ELSE a

----------------------------------------------------------------------------
(* Civilian *)

Civ(l, r, t) == [loyal |-> l, rebel |-> r, techLevel |-> t]

\* the zero value of the struct
ZeroCivilian == Civ(0, 0, 0)

NewCivilian(pop, techLevel) == Civ(pop, 0, techLevel)

Population(c) == c.loyal + c.rebel

Rebels(c) == c.rebel

TechLevel(c) == c.techLevel

\* a slip: the weighted sum is divided by the receiver's population alone
MergeTechLevelReceiverOnly(a, b) ==
    IF a.techLevel = b.techLevel
    THEN a.techLevel
    ELSE GoDiv(Population(a) * a.techLevel + Population(b) * b.techLevel,
               Population(a))

\* a slip: the weighted average is rounded to the nearest integer
MergeTechLevelRounded(a, b) ==
    IF a.techLevel = b.techLevel
    THEN a.techLevel
    ELSE GoDiv(2 * (Population(a) * a.techLevel + Population(b) * b.techLevel)
                 + Population(a) + Population(b),
               2 * (Population(a) + Population(b)))

\* n.techLevel as Merge computes it for operands with nonzero population
MergeTechLevel(a, b) ==
    IF a.techLevel = b.techLevel
    THEN a.techLevel
    ELSE GoDiv(Population(a) * a.techLevel + Population(b) * b.techLevel,
               Population(a) + Population(b))

\* a slip: the receiver's rebels and tech level are used in both branches
MergeDeltaRebelsReceiver(a, b, n) ==
    IF a.techLevel = b.techLevel THEN 0
    ELSE IF n < a.techLevel THEN GoDiv(a.rebel * (a.techLevel - n), 100)
    ELSE IF n < b.techLevel THEN GoDiv(a.rebel * (a.techLevel - n), 100)
    ELSE 0

\* deltaRebels before the minimum of 1 is applied; n is the merged tech level
MergeDeltaRebels(a, b, n) ==
    IF a.techLevel = b.techLevel THEN 0
    ELSE IF n < a.techLevel THEN GoDiv(a.rebel * (a.techLevel - n), 100)
    ELSE IF n < b.techLevel THEN GoDiv(b.rebel * (b.techLevel - n), 100)
    ELSE 0

\* a slip: the new rebels are not taken out of the loyal headcount
MergeLoyalKept(a, b) ==
    IF Population(a) = 0 THEN b
    ELSE IF Population(b) = 0 THEN a
    ELSE LET n  == MergeTechLevel(a, b)
             d0 == MergeDeltaRebels(a, b, n)
             deltaRebels == IF d0 < 1 THEN 1 ELSE d0
         IN  Civ(a.loyal + b.loyal,
                 a.rebel + b.rebel + deltaRebels,
                 n)

\* a slip: an argument with zero population is merged like any other
MergeEmptyArgument(a, b) ==
    IF Population(a) = 0 THEN b
    ELSE LET n  == MergeTechLevel(a, b)
             d0 == MergeDeltaRebels(a, b, n)
             deltaRebels == IF d0 < 1 THEN 1 ELSE d0
         IN  Civ(a.loyal + b.loyal - deltaRebels,
                 a.rebel + b.rebel + deltaRebels,
                 n)

Merge(a, b) ==
    IF Population(a) = 0 THEN b
    ELSE IF Population(b) = 0 THEN a
    ELSE LET n  == MergeTechLevel(a, b)
             d0 == MergeDeltaRebels(a, b, n)
             deltaRebels == IF d0 < 1 THEN 1 ELSE d0
         IN  Civ(a.loyal + b.loyal - deltaRebels,
                 a.rebel + b.rebel + deltaRebels,
                 n)

----------------------------------------------------------------------------
(* Spec: an owner creates a unit and replaces it by the results of merges *)

\* populations and tech levels handed to NewCivilian
NewPops == {0, 1}
NewTechs == {0, 4, MaxTech}

NoArgs == [techLevel |-> 0, standardOfLiving |-> 0, pctCapacity |-> 0,
           isOnShip |-> FALSE, isResortColony |-> FALSE]

\* outcomes of a call: it returned a value, it panicked, it was not made yet
Returned(v) == [panic |-> FALSE, returned |-> TRUE, value |-> v]
Panicked == [panic |-> TRUE, returned |-> FALSE, value |-> 0]
NoRet == [panic |-> FALSE, returned |-> FALSE, value |-> 0]

\* no bytes
NoData == <<>>

Init ==
    /\ \E pop \in NewPops, t \in NewTechs : u = NewCivilian(pop, t) /\ total = pop
    /\ p = ZeroCivilian
    /\ q = ZeroCivilian
    /\ op = "new"
    /\ args = NoArgs
    /\ ret = NoRet
    /\ third = ZeroCivilian
    /\ other = ZeroCivilian
    /\ data = NoData

\* u = NewCivilian(pop, t)
Create ==
    \E pop \in NewPops, t \in NewTechs :
        /\ u' = NewCivilian(pop, t)
        /\ total' = pop
        /\ p' = ZeroCivilian
        /\ q' = ZeroCivilian
        /\ op' = "new"
        /\ UNCHANGED <<args, ret, third, other, data>>

\* the owner replaces u by a.Merge(b); grown is the population that joins u
MergeStep(a, b, grown) ==
    /\ Population(a) + Population(b) <= MaxPop
    /\ u' = Merge(a, b)
    /\ p' = a
    /\ q' = b
    /\ total' = total + grown
    /\ op' = "merge"
    /\ UNCHANGED <<args, ret, third, other, data>>

\* u = u.Merge(NewCivilian(pop, t))
MergeArrival ==
    \E pop \in NewPops, t \in NewTechs : MergeStep(u, NewCivilian(pop, t), pop)

\* u = NewCivilian(pop, t).Merge(u)
MergeInto ==
    \E pop \in NewPops, t \in NewTechs : MergeStep(NewCivilian(pop, t), u, pop)

\* u = u.Merge(u): two equal units combine
MergeSelf == MergeStep(u, u, total)

Next == Create \/ MergeArrival \/ MergeInto \/ MergeSelf

Spec == Init /\ [][Next]_vars

----------------------------------------------------------------------------
(* SpecMerge: one Merge call on operands drawn from a bounded set of units *)

\* headcounts of the operands; units with rebels arise from earlier merges
\* and from decoded data
Loyals == {0, 1, 100, 300, 1000}
RebelCounts == {0, 1, 40, 250}

MergeUnits == {Civ(l, r, t) : l \in Loyals, r \in RebelCounts, t \in TechLevels}

InitMerge ==
    /\ p \in MergeUnits
    /\ q \in MergeUnits
    /\ u = ZeroCivilian
    /\ op = "init"
    /\ total = 0
    /\ args = NoArgs
    /\ ret = NoRet
    /\ third = ZeroCivilian
    /\ other = ZeroCivilian
    /\ data = NoData

\* u = p.Merge(q)
MergeCall ==
    /\ op = "init"
    /\ u' = Merge(p, q)
    /\ op' = "merge"
    /\ UNCHANGED <<p, q, total, args, ret, third, other, data>>

NextMerge == MergeCall

SpecMerge == InitMerge /\ [][NextMerge]_vars

----------------------------------------------------------------------------
(* Demographic rate model *)

(* float64 values are modelled as exact fixed-point numbers.  A standard of *)
(* living or a percentage of capacity x is the integer 1000 * x.  A rate r  *)
(* is the integer 40000000 * r, a scale in which every product of the band  *)
(* tables below is an integer, so that no rounding enters the model.        *)

\* the rate num / den
R(num, den) == (40000000 \div den) * num

\* x * (num / den)
Times(x, num, den) == (x * num) \div den

\* saturates v to [lo, hi]
clamp(v, lo, hi) == IF v < lo THEN lo ELSE IF v > hi THEN hi ELSE v

\* birthRate := float64(11-techLevel) * 0.1, kept within [0.0025, 0.10]
BirthBaseRate(techLevel) ==
    LET birthRate == (11 - techLevel) * R(1, 10)
    IN  IF birthRate < R(25, 10000) THEN R(25, 10000)
        ELSE IF birthRate > R(10, 100) THEN R(10, 100)
        ELSE birthRate

\* a change of the band order: the > 1.75 band is tested before the > 1.20 band
BirthStandardOfLivingReordered(birthRate, standardOfLiving) ==
    IF standardOfLiving < 250 THEN Times(birthRate, 150, 100)
    ELSE IF standardOfLiving < 800 THEN Times(birthRate, 125, 100)
    ELSE IF standardOfLiving < 1200 THEN birthRate
    ELSE IF standardOfLiving > 1750 THEN Times(birthRate, 50, 100)
    ELSE IF standardOfLiving > 1200 THEN Times(birthRate, 75, 100)
    ELSE birthRate

\* standard of living influences it
BirthStandardOfLiving(birthRate, standardOfLiving) ==
    IF standardOfLiving < 250 THEN Times(birthRate, 150, 100)
    ELSE IF standardOfLiving < 800 THEN Times(birthRate, 125, 100)
    ELSE IF standardOfLiving < 1200 THEN birthRate
    ELSE IF standardOfLiving > 1200 THEN Times(birthRate, 75, 100)
    ELSE IF standardOfLiving > 1750 THEN Times(birthRate, 50, 100)
    ELSE birthRate

\* a slip: the bands include their upper edge
BirthCrowdingInclusive(birthRate, pctCapacity) ==
    IF pctCapacity <= 250 THEN Times(birthRate, 125, 100)
    ELSE IF pctCapacity <= 400 THEN Times(birthRate, 110, 100)
    ELSE IF pctCapacity <= 650 THEN birthRate
    ELSE IF pctCapacity <= 700 THEN Times(birthRate, 90, 100)
    ELSE IF pctCapacity <= 800 THEN Times(birthRate, 60, 100)
    ELSE IF pctCapacity <= 900 THEN Times(birthRate, 25, 100)
    ELSE IF pctCapacity <= 950 THEN Times(birthRate, 10, 100)
    ELSE Times(birthRate, 5, 100)

\* overcrowding reduces the birth rate
BirthCrowding(birthRate, pctCapacity) ==
    IF pctCapacity < 250 THEN Times(birthRate, 125, 100)
    ELSE IF pctCapacity < 400 THEN Times(birthRate, 110, 100)
    ELSE IF pctCapacity < 650 THEN birthRate
    ELSE IF pctCapacity < 700 THEN Times(birthRate, 90, 100)
    ELSE IF pctCapacity < 800 THEN Times(birthRate, 60, 100)
    ELSE IF pctCapacity < 900 THEN Times(birthRate, 25, 100)
    ELSE IF pctCapacity < 950 THEN Times(birthRate, 10, 100)
    ELSE Times(birthRate, 5, 100)

\* naturalBirthRate past its isOnShip check
BirthRateOffShip(techLevel, standardOfLiving, pctCapacity, isResortColony) ==
    LET sol    == clamp(standardOfLiving, 10, 3000)
        cap    == clamp(pctCapacity, 10, 1000)
        base   == BirthBaseRate(techLevel)
        resort == IF isResortColony THEN base * 2 ELSE base
        living == BirthStandardOfLiving(resort, sol)
        crowd  == BirthCrowding(living, cap)
    IN  clamp(crowd, R(25, 10000), R(10, 100))

\* a slip: the computation does not look at isOnShip
naturalBirthRateAboard(techLevel, standardOfLiving, pctCapacity, isOnShip, isResortColony) ==
    BirthRateOffShip(techLevel, standardOfLiving, pctCapacity, isResortColony)

naturalBirthRate(techLevel, standardOfLiving, pctCapacity, isOnShip, isResortColony) ==
    IF isOnShip THEN 0
    ELSE BirthRateOffShip(techLevel, standardOfLiving, pctCapacity, isResortColony)

\* a slip: the switch has no default case and deathRate keeps its zero value
DeathBaseRateDefaulted(techLevel) ==
    IF techLevel \in TechLevels
    THEN Returned(R(1500 - 100 * techLevel, 100000))
    ELSE Returned(0)

\* the base rate is determined by tech level
DeathBaseRate(techLevel) ==
    CASE techLevel = 0  -> Returned(R(1500, 100000))
      [] techLevel = 1  -> Returned(R(1400, 100000))
      [] techLevel = 2  -> Returned(R(1300, 100000))
      [] techLevel = 3  -> Returned(R(1200, 100000))
      [] techLevel = 4  -> Returned(R(1100, 100000))
      [] techLevel = 5  -> Returned(R(1000, 100000))
      [] techLevel = 6  -> Returned(R(900, 100000))
      [] techLevel = 7  -> Returned(R(800, 100000))
      [] techLevel = 8  -> Returned(R(700, 100000))
      [] techLevel = 9  -> Returned(R(600, 100000))
      [] techLevel = 10 -> Returned(R(500, 100000))
      [] OTHER          -> Panicked

\* a slip: the bands include their lower edge
DeathStandardOfLivingInclusive(deathRate, standardOfLiving) ==
    IF standardOfLiving >= 1500 THEN Times(deathRate, 975, 1000)
    ELSE IF standardOfLiving >= 1250 THEN Times(deathRate, 950, 1000)
    ELSE IF standardOfLiving >= 990 THEN deathRate
    ELSE IF standardOfLiving >= 875 THEN Times(deathRate, 1025, 1000)
    ELSE IF standardOfLiving >= 750 THEN Times(deathRate, 1050, 1000)
    ELSE IF standardOfLiving >= 625 THEN Times(deathRate, 1075, 1000)
    ELSE IF standardOfLiving >= 500 THEN Times(deathRate, 1100, 1000)
    ELSE IF standardOfLiving >= 375 THEN Times(deathRate, 1125, 1000)
    ELSE IF standardOfLiving >= 250 THEN Times(deathRate, 1150, 1000)
    ELSE IF standardOfLiving >= 125 THEN Times(deathRate, 1175, 1000)
    ELSE deathRate

\* standard of living influences it
DeathStandardOfLiving(deathRate, standardOfLiving) ==
    IF standardOfLiving > 1500 THEN Times(deathRate, 975, 1000)
    ELSE IF standardOfLiving > 1250 THEN Times(deathRate, 950, 1000)
    ELSE IF standardOfLiving > 990 THEN deathRate
    ELSE IF standardOfLiving > 875 THEN Times(deathRate, 1025, 1000)
    ELSE IF standardOfLiving > 750 THEN Times(deathRate, 1050, 1000)
    ELSE IF standardOfLiving > 625 THEN Times(deathRate, 1075, 1000)
    ELSE IF standardOfLiving > 500 THEN Times(deathRate, 1100, 1000)
    ELSE IF standardOfLiving > 375 THEN Times(deathRate, 1125, 1000)
    ELSE IF standardOfLiving > 250 THEN Times(deathRate, 1150, 1000)
    ELSE IF standardOfLiving > 125 THEN Times(deathRate, 1175, 1000)
    ELSE deathRate

\* overcrowding increases it
DeathCrowding(deathRate, pctCapacity) ==
    IF pctCapacity > 2000 THEN Times(deathRate, 3000, 1000)
    ELSE IF pctCapacity > 1500 THEN Times(deathRate, 2000, 1000)
    ELSE IF pctCapacity > 990 THEN Times(deathRate, 1500, 1000)
    ELSE IF pctCapacity > 975 THEN Times(deathRate, 1250, 1000)
    ELSE IF pctCapacity > 950 THEN Times(deathRate, 1100, 1000)
    ELSE IF pctCapacity > 925 THEN Times(deathRate, 1025, 1000)
    ELSE IF pctCapacity > 900 THEN Times(deathRate, 1010, 1000)
    ELSE deathRate

naturalDeathRate(techLevel, standardOfLiving, pctCapacity) ==
    LET sol  == clamp(standardOfLiving, 10, 3000)
        cap  == clamp(pctCapacity, 10, 1000)
        base == DeathBaseRate(techLevel)
    IN  IF base.panic THEN Panicked
        ELSE Returned(clamp(DeathCrowding(DeathStandardOfLiving(base.value, sol), cap),
                            R(2500, 1000000), R(750000, 1000000)))

----------------------------------------------------------------------------
(* The rate methods of Civilian *)

\* IsOnShip returns true if the population is on a ship.
IsOnShip(c) == FALSE

\* IsResortColony returns true if the population is in a resort colony
IsResortColony(c) == FALSE

CivilianNaturalBirthRate(c, standardOfLiving, pctCapacity) ==
    IF IsOnShip(c) THEN 0
    ELSE
    LET sol  == clamp(standardOfLiving, 10, 3000)
        cap  == clamp(pctCapacity, 10, 1000)
        raw  == (11 - c.techLevel) * R(1, 10)
        base == IF raw < R(25, 10000) THEN R(25, 10000)
                ELSE IF raw > R(10, 100) THEN R(10, 100)
                ELSE raw
        resort == IF IsResortColony(c) THEN base * 2 ELSE base
        living ==
            IF sol < 250 THEN Times(resort, 150, 100)
            ELSE IF sol < 800 THEN Times(resort, 125, 100)
            ELSE IF sol < 1200 THEN resort
            ELSE IF sol > 1200 THEN Times(resort, 75, 100)
            ELSE IF sol > 1750 THEN Times(resort, 50, 100)
            ELSE resort
        crowd ==
            IF cap < 250 THEN Times(living, 125, 100)
            ELSE IF cap < 400 THEN Times(living, 110, 100)
            ELSE IF cap < 650 THEN living
            ELSE IF cap < 700 THEN Times(living, 90, 100)
            ELSE IF cap < 800 THEN Times(living, 60, 100)
            ELSE IF cap < 900 THEN Times(living, 25, 100)
            ELSE IF cap < 950 THEN Times(living, 10, 100)
            ELSE Times(living, 5, 100)
    IN  clamp(crowd, R(25, 10000), R(10, 100))

\* a slip in the copy of the table: tech level 6 carries the rate of 7
CivilianDeathBaseRateDrifted(techLevel) ==
    CASE techLevel = 0  -> Returned(R(1500, 100000))
      [] techLevel = 1  -> Returned(R(1400, 100000))
      [] techLevel = 2  -> Returned(R(1300, 100000))
      [] techLevel = 3  -> Returned(R(1200, 100000))
      [] techLevel = 4  -> Returned(R(1100, 100000))
      [] techLevel = 5  -> Returned(R(1000, 100000))
      [] techLevel = 6  -> Returned(R(800, 100000))
      [] techLevel = 7  -> Returned(R(800, 100000))
      [] techLevel = 8  -> Returned(R(700, 100000))
      [] techLevel = 9  -> Returned(R(600, 100000))
      [] techLevel = 10 -> Returned(R(500, 100000))
      [] OTHER          -> Panicked

\* switch p.techLevel of NaturalDeathRate
CivilianDeathBaseRate(techLevel) ==
    CASE techLevel = 0  -> Returned(R(1500, 100000))
      [] techLevel = 1  -> Returned(R(1400, 100000))
      [] techLevel = 2  -> Returned(R(1300, 100000))
      [] techLevel = 3  -> Returned(R(1200, 100000))
      [] techLevel = 4  -> Returned(R(1100, 100000))
      [] techLevel = 5  -> Returned(R(1000, 100000))
      [] techLevel = 6  -> Returned(R(900, 100000))
      [] techLevel = 7  -> Returned(R(800, 100000))
      [] techLevel = 8  -> Returned(R(700, 100000))
      [] techLevel = 9  -> Returned(R(600, 100000))
      [] techLevel = 10 -> Returned(R(500, 100000))
      [] OTHER          -> Panicked

CivilianNaturalDeathRate(c, standardOfLiving, pctCapacity) ==
    LET sol  == clamp(standardOfLiving, 10, 3000)
        cap  == clamp(pctCapacity, 10, 1000)
        base == CivilianDeathBaseRate(c.techLevel)
        living ==
            IF sol > 1500 THEN Times(base.value, 975, 1000)
            ELSE IF sol > 1250 THEN Times(base.value, 950, 1000)
            ELSE IF sol > 990 THEN base.value
            ELSE IF sol > 875 THEN Times(base.value, 1025, 1000)
            ELSE IF sol > 750 THEN Times(base.value, 1050, 1000)
            ELSE IF sol > 625 THEN Times(base.value, 1075, 1000)
            ELSE IF sol > 500 THEN Times(base.value, 1100, 1000)
            ELSE IF sol > 375 THEN Times(base.value, 1125, 1000)
            ELSE IF sol > 250 THEN Times(base.value, 1150, 1000)
            ELSE IF sol > 125 THEN Times(base.value, 1175, 1000)
            ELSE base.value
        crowd ==
            IF cap > 2000 THEN Times(living, 3000, 1000)
            ELSE IF cap > 1500 THEN Times(living, 2000, 1000)
            ELSE IF cap > 990 THEN Times(living, 1500, 1000)
            ELSE IF cap > 975 THEN Times(living, 1250, 1000)
            ELSE IF cap > 950 THEN Times(living, 1100, 1000)
            ELSE IF cap > 925 THEN Times(living, 1025, 1000)
            ELSE IF cap > 900 THEN Times(living, 1010, 1000)
            ELSE living
    IN  IF base.panic THEN Panicked
        ELSE Returned(clamp(crowd, R(2500, 1000000), R(750000, 1000000)))

----------------------------------------------------------------------------
(* SpecRates: one call of a rate function on arguments from bounded sets *)

\* tech levels inside and outside [0, MaxTech]
RateTechLevels == (0 - 2) .. (MaxTech + 2)

\* standards of living, in thousandths: the band edges, values on both sides
\* of them and values outside [0.01, 3.0]
StandardsOfLiving ==
    {0 - 500, 0, 10, 125, 126, 249, 250, 251, 375, 376, 500, 501, 625, 626,
     750, 751, 799, 800, 875, 876, 990, 991, 1000, 1199, 1200, 1201, 1250,
     1251, 1500, 1501, 1750, 1751, 2000, 3000, 4000}

\* percentages of capacity, in thousandths: the band edges, values on both
\* sides of them and values outside [0.01, 1.0]
Capacities ==
    {0 - 100, 5, 10, 249, 250, 300, 399, 400, 500, 600, 649, 650, 699, 700,
     799, 800, 899, 900, 901, 925, 926, 949, 950, 951, 975, 976, 990, 991,
     1000, 1500, 1501, 2000, 2500}

InitRates ==
    /\ args \in [techLevel : RateTechLevels,
                 standardOfLiving : StandardsOfLiving,
                 pctCapacity : Capacities,
                 isOnShip : BOOLEAN,
                 isResortColony : BOOLEAN]
    /\ ret = NoRet
    /\ op = "init"
    /\ u = ZeroCivilian
    /\ p = ZeroCivilian
    /\ q = ZeroCivilian
    /\ total = 0
    /\ third = ZeroCivilian
    /\ other = ZeroCivilian
    /\ data = NoData

CallBirthRate ==
    /\ op = "init"
    /\ ret' = Returned(naturalBirthRate(args.techLevel, args.standardOfLiving,
                                        args.pctCapacity, args.isOnShip,
                                        args.isResortColony))
    /\ op' = "birth"
    /\ UNCHANGED <<u, p, q, total, args, third, other, data>>

CallDeathRate ==
    /\ op = "init"
    /\ ret' = naturalDeathRate(args.techLevel, args.standardOfLiving, args.pctCapacity)
    /\ op' = "death"
    /\ UNCHANGED <<u, p, q, total, args, third, other, data>>

\* population of the unit the methods are called on
RatePop == 1000

\* NewCivilian(RatePop, techLevel).NaturalBirthRate(standardOfLiving, pctCapacity)
CallCivilianBirthRate ==
    /\ op = "init"
    /\ u' = NewCivilian(RatePop, args.techLevel)
    /\ ret' = Returned(CivilianNaturalBirthRate(u', args.standardOfLiving,
                                                args.pctCapacity))
    /\ op' = "civilian-birth"
    /\ UNCHANGED <<p, q, total, args, third, other, data>>

\* NewCivilian(RatePop, techLevel).NaturalDeathRate(standardOfLiving, pctCapacity)
CallCivilianDeathRate ==
    /\ op = "init"
    /\ u' = NewCivilian(RatePop, args.techLevel)
    /\ ret' = CivilianNaturalDeathRate(u', args.standardOfLiving, args.pctCapacity)
    /\ op' = "civilian-death"
    /\ UNCHANGED <<p, q, total, args, third, other, data>>

NextRates ==
    \/ CallBirthRate
    \/ CallDeathRate
    \/ CallCivilianBirthRate
    \/ CallCivilianDeathRate

SpecRates == InitRates /\ [][NextRates]_vars

----------------------------------------------------------------------------
(* SpecGroup: three units are merged in both groupings *)

GroupPops == {100, 300}

GroupUnits == {NewCivilian(pop, t) : pop \in GroupPops, t \in TechLevels}

InitGroup ==
    /\ p \in GroupUnits
    /\ q \in GroupUnits
    /\ third \in GroupUnits
    /\ u = ZeroCivilian
    /\ other = ZeroCivilian
    /\ op = "init"
    /\ total = 0
    /\ args = NoArgs
    /\ ret = NoRet
    /\ data = NoData

\* u = p.Merge(q).Merge(third)
GroupLeft ==
    /\ op = "init"
    /\ u' = Merge(Merge(p, q), third)
    /\ op' = "left"
    /\ UNCHANGED <<p, q, third, other, total, args, ret, data>>

\* other = p.Merge(q.Merge(third))
GroupRight ==
    /\ op = "left"
    /\ other' = Merge(p, Merge(q, third))
    /\ op' = "grouped"
    /\ UNCHANGED <<p, q, third, u, total, args, ret, data>>

NextGroup == GroupLeft \/ GroupRight

SpecGroup == InitGroup /\ [][NextGroup]_vars

----------------------------------------------------------------------------
(* JSON encoding of a Civilian *)

(* The bytes of a JSON text are modelled as its sequence of tokens; a      *)
(* number token carries the characters of its literal, so that writing an  *)
(* int and reading it back are two conversions.  Objects hold numbers,     *)
(* strings and nulls; nested values are outside the model.                 *)

Token(k, n, cs) == [kind |-> k, name |-> n, chars |-> cs]
LBrace == Token("{", "", <<>>)
RBrace == Token("}", "", <<>>)
LBracket == Token("[", "", <<>>)
RBracket == Token("]", "", <<>>)
Colon == Token(":", "", <<>>)
Comma == Token(",", "", <<>>)
Null == Token("null", "", <<>>)
Str(n) == Token("string", n, <<>>)
Num(cs) == Token("number", "", cs)

DigitChars == <<"0", "1", "2", "3", "4", "5", "6", "7", "8", "9">>

IsDigit(c) == \E i \in 1 .. 10 : DigitChars[i] = c

DigitValue(c) == (CHOOSE i \in 1 .. 10 : DigitChars[i] = c) - 1

RECURSIVE FormatNat(_)
FormatNat(n) ==
    IF n < 10 THEN <<DigitChars[n + 1]>>
    ELSE Append(FormatNat(n \div 10), DigitChars[(n % 10) + 1])

\* the decimal literal json.Marshal writes for an int
FormatInt(n) == IF n < 0 THEN <<"-">> \o FormatNat(-n) ELSE FormatNat(n)

RECURSIVE ParseNat(_)
ParseNat(cs) ==
    IF cs = <<>> THEN 0
    ELSE 10 * ParseNat(SubSeq(cs, 1, Len(cs) - 1)) + DigitValue(cs[Len(cs)])

\* the int the decoder reads from an integer literal
ParseInt(cs) == IF cs[1] = "-" THEN -ParseNat(Tail(cs)) ELSE ParseNat(cs)

AllDigits(cs) == cs # <<>> /\ \A i \in 1 .. Len(cs) : IsDigit(cs[i])

\* an integer literal of JSON: -? (0 | [1-9][0-9]*)
IsIntegerLiteral(cs) ==
    LET body == IF cs # <<>> /\ cs[1] = "-" THEN Tail(cs) ELSE cs
    IN  AllDigits(body) /\ (Len(body) > 1 => body[1] # "0")

\* a number literal of JSON: an integer literal and an optional fraction
IsNumberLiteral(cs) ==
    \/ IsIntegerLiteral(cs)
    \/ \E i \in 1 .. Len(cs) :
          /\ cs[i] = "."
          /\ IsIntegerLiteral(SubSeq(cs, 1, i - 1))
          /\ AllDigits(SubSeq(cs, i + 1, Len(cs)))

\* auxCivilian
Aux(l, r, t) == [LoyalCitizens |-> l, RebelCitizens |-> r, TechLevel |-> t]

\* var aux auxCivilian
ZeroAux == Aux(0, 0, 0)

\* the keys of the struct tags
LoyalKey == "loyal-citizens"
RebelKey == "rebel-citizens"
TechKey == "tech-level"

\* a slip: the rebel headcount is written under both headcount keys
MarshalJSONRebelTwice(c) ==
    <<LBrace, Str(LoyalKey), Colon, Num(FormatInt(c.rebel)), Comma,
              Str(RebelKey), Colon, Num(FormatInt(c.rebel)), Comma,
              Str(TechKey), Colon, Num(FormatInt(c.techLevel)), RBrace>>

\* the bytes MarshalJSON returns (its error is always nil)
MarshalJSON(c) ==
    LET aux == Aux(c.loyal, c.rebel, c.techLevel)
    IN  <<LBrace, Str(LoyalKey), Colon, Num(FormatInt(aux.LoyalCitizens)), Comma,
                  Str(RebelKey), Colon, Num(FormatInt(aux.RebelCitizens)), Comma,
                  Str(TechKey), Colon, Num(FormatInt(aux.TechLevel)), RBrace>>

\* keys are matched to the struct tags without regard to case
FoldKey(n) ==
    CASE n = "Loyal-Citizens" -> LoyalKey
      [] n = "REBEL-CITIZENS" -> RebelKey
      [] n = "Tech-Level"     -> TechKey
      [] OTHER                -> n

\* outcome of decoding: err is "" when the decoder returns nil
Decoded(e, aux) == [err |-> e, aux |-> aux]

\* the decoder stores the value tok under key n: the fields of aux and
\* whether the value does not fit an int field
StoreMember(aux, n, tok) ==
    LET key   == FoldKey(n)
        known == key \in {LoyalKey, RebelKey, TechKey}
        fits  == tok.kind = "number" /\ IsIntegerLiteral(tok.chars)
        val   == IF fits THEN ParseInt(tok.chars) ELSE 0
    IN  IF ~known \/ tok.kind = "null" THEN [aux |-> aux, mismatch |-> FALSE]
        ELSE IF ~fits THEN [aux |-> aux, mismatch |-> TRUE]
        ELSE IF key = LoyalKey
             THEN [aux |-> [aux EXCEPT !.LoyalCitizens = val], mismatch |-> FALSE]
        ELSE IF key = RebelKey
             THEN [aux |-> [aux EXCEPT !.RebelCitizens = val], mismatch |-> FALSE]
        ELSE [aux |-> [aux EXCEPT !.TechLevel = val], mismatch |-> FALSE]

\* the members of an object from token i on, a key expected at i.  A text
\* that is not valid JSON is a syntax error whatever was stored before it;
\* a value that does not fit its field is reported once the object is read.
RECURSIVE DecodeMembers(_, _, _, _)
DecodeMembers(toks, i, aux, mismatch) ==
    IF i + 3 > Len(toks) THEN Decoded("unexpected EOF", ZeroAux)
    ELSE IF \/ toks[i].kind # "string"
            \/ toks[i + 1].kind # ":"
            \/ toks[i + 2].kind \notin {"number", "string", "null"}
            \/ (toks[i + 2].kind = "number" /\ ~IsNumberLiteral(toks[i + 2].chars))
            \/ toks[i + 3].kind \notin {",", "}"}
         THEN Decoded("syntax error", ZeroAux)
    ELSE LET st == StoreMember(aux, toks[i].name, toks[i + 2])
         IN  IF toks[i + 3].kind = ","
             THEN DecodeMembers(toks, i + 4, st.aux, mismatch \/ st.mismatch)
             ELSE IF mismatch \/ st.mismatch
                  THEN Decoded("unmarshal type error", st.aux)
                  ELSE Decoded("", st.aux)

\* json.NewDecoder(bytes.NewReader(data)).Decode(&aux) on a zero aux: the
\* first JSON value of the text is read, what follows it is not looked at
Decode(toks) ==
    IF toks = <<>> THEN Decoded("EOF", ZeroAux)
    ELSE CASE toks[1].kind = "null" -> Decoded("", ZeroAux)
           [] toks[1].kind = "string" -> Decoded("unmarshal type error", ZeroAux)
           [] toks[1].kind = "number" ->
                IF IsNumberLiteral(toks[1].chars)
                THEN Decoded("unmarshal type error", ZeroAux)
                ELSE Decoded("syntax error", ZeroAux)
           [] toks[1].kind = "[" ->
                IF Len(toks) < 2 THEN Decoded("unexpected EOF", ZeroAux)
                ELSE IF toks[2].kind = "]" THEN Decoded("unmarshal type error", ZeroAux)
                ELSE Decoded("syntax error", ZeroAux)
           [] toks[1].kind = "{" ->
                IF Len(toks) < 2 THEN Decoded("unexpected EOF", ZeroAux)
                ELSE IF toks[2].kind = "}" THEN Decoded("", ZeroAux)
                ELSE DecodeMembers(toks, 2, ZeroAux, FALSE)
           [] OTHER -> Decoded("syntax error", ZeroAux)

\* error values: nil, and fmt.Errorf("decode civilian: %w", err)
Nil == [msg |-> "", cause |-> ""]
DecodeError(cause) == [msg |-> "decode civilian", cause |-> cause]

\* a slip: the fields are assigned before the error is looked at
UnmarshalJSONAssignsFirst(c, bytes) ==
    LET d == Decode(bytes)
        n == Civ(d.aux.LoyalCitizens, d.aux.RebelCitizens, d.aux.TechLevel)
    IN  IF d.err # ""
        THEN [unit |-> n, err |-> DecodeError(d.err)]
        ELSE [unit |-> n, err |-> Nil]

\* the receiver after the call and the error returned
UnmarshalJSON(c, bytes) ==
    LET d == Decode(bytes)
    IN  IF d.err # ""
        THEN [unit |-> c, err |-> DecodeError(d.err)]
        ELSE [unit |-> Civ(d.aux.LoyalCitizens, d.aux.RebelCitizens, d.aux.TechLevel),
              err |-> Nil]

----------------------------------------------------------------------------
(* SpecJSON: a unit is encoded and decoded, or a given text is decoded *)

\* the units that are encoded; headcounts below zero are reached by Merge
JSONUnits ==
    {Civ(l, rb, t) : l \in {0 - 3, 0, 7, 1205}, rb \in {0, 40, 100000}, t \in {0 - 1, 0, 10, 12}}

\* contents of the receiver before the call
PriorUnits == {ZeroCivilian, Civ(5, 6, 7)}

Member(n, cs) == <<Str(n), Colon, Num(cs)>>

\* texts that are valid JSON and fit auxCivilian
WellFormedInputs ==
    { <<Null>>,
      <<LBrace, RBrace>>,
      <<LBrace>> \o Member("name", <<"5">>) \o <<RBrace>>,
      <<LBrace>> \o Member("Tech-Level", <<"9">>) \o <<RBrace>>,
      <<LBrace, Str(LoyalKey), Colon, Null, RBrace>>,
      <<LBrace>> \o Member(TechKey, <<"3">>) \o <<Comma>>
                 \o Member(TechKey, <<"4">>) \o <<RBrace>>,
      <<LBrace>> \o Member(LoyalKey, <<"1", "2">>) \o <<Comma>>
                 \o Member(RebelKey, <<"3">>) \o <<RBrace, RBrace, Comma>> }

\* texts that are not valid JSON
SyntaxErrorInputs ==
    { <<>>,
      <<LBrace>>,
      <<LBrace, Str(LoyalKey), Colon>>,
      <<LBrace>> \o Member(LoyalKey, <<"7">>),
      <<LBrace, Str(LoyalKey), Num(<<"7">>), RBrace>>,
      <<LBrace>> \o Member(LoyalKey, <<"7">>) \o <<Comma, RBrace>>,
      <<LBrace>> \o Member(LoyalKey, <<"0", "1">>) \o <<RBrace>>,
      <<LBrace>> \o Member(LoyalKey, <<"-">>) \o <<RBrace>>,
      <<LBrace>> \o Member(LoyalKey, <<"1", ".">>) \o <<RBrace>>,
      <<LBrace, Num(<<"7">>), Colon, Num(<<"7">>), RBrace>>,
      <<LBrace>> \o Member(LoyalKey, <<"7">>) \o Member(RebelKey, <<"1">>) \o <<RBrace>>,
      <<LBracket>>,
      <<RBrace>> }

\* texts that are valid JSON of another shape than auxCivilian
TypeMismatchInputs ==
    { <<LBracket, RBracket>>,
      <<Str("civilian")>>,
      <<Num(<<"4", "2">>)>>,
      <<LBrace>> \o Member(LoyalKey, <<"7">>) \o <<Comma>>
                 \o <<Str(TechKey), Colon, Str("high"), RBrace>>,
      <<LBrace>> \o Member(RebelKey, <<"1", ".", "5">>) \o <<Comma>>
                 \o Member(LoyalKey, <<"8">>) \o <<RBrace>> }

MalformedInputs == SyntaxErrorInputs \cup TypeMismatchInputs

InitJSON ==
    /\ p \in JSONUnits
    /\ u \in PriorUnits
    /\ q = ZeroCivilian
    /\ data = NoData
    /\ op = "init"
    /\ ret = NoRet
    /\ total = 0
    /\ args = NoArgs
    /\ third = ZeroCivilian
    /\ other = ZeroCivilian

\* data, _ = p.MarshalJSON()
Encode ==
    /\ op = "init"
    /\ data' = MarshalJSON(p)
    /\ op' = "encoded"
    /\ UNCHANGED <<u, p, q, total, args, ret, third, other>>

\* a text from elsewhere is about to be decoded
Receive ==
    /\ op = "init"
    /\ data' \in WellFormedInputs \cup MalformedInputs
    /\ op' = "received"
    /\ UNCHANGED <<u, p, q, total, args, ret, third, other>>

\* err = u.UnmarshalJSON(data); q keeps the contents u had before the call
DecodeStep ==
    /\ op \in {"encoded", "received"}
    /\ LET res == UnmarshalJSON(u, data)
       IN  /\ u' = res.unit
           /\ ret' = Returned(res.err)
    /\ q' = u
    /\ op' = IF op = "encoded" THEN "roundtrip" ELSE "decoded"
    /\ UNCHANGED <<p, total, args, third, other, data>>

NextJSON == Encode \/ Receive \/ DecodeStep

SpecJSON == InitJSON /\ [][NextJSON]_vars

----------------------------------------------------------------------------
(* Properties of NewCivilian and Merge *)

\* the last operation was a Merge of two units with nonzero population
MergedNonzero == op = "merge" /\ Population(p) # 0 /\ Population(q) # 0

IsEmpty(c) == c.loyal = 0 /\ c.rebel = 0

\* C1: every unit reached by NewCivilian (pop >= 0, tech in [0,10]) and Merge
\* calls has loyal >= 0 and rebel >= 0.
HeadcountsNonNegative == u.loyal >= 0 /\ u.rebel >= 0

\* C2: a Merge of two units with positive population and tech levels in
\* [0,10] yields a tech level between the operands' tech levels, and every
\* unit reached by NewCivilian and Merge calls has its tech level in [0,10].
TechLevelInRange ==
    /\ u.techLevel \in TechLevels
    /\ (/\ op = "merge"
        /\ Population(p) > 0 /\ Population(q) > 0
        /\ p.techLevel \in TechLevels /\ q.techLevel \in TechLevels)
       => /\ Min(p.techLevel, q.techLevel) <= u.techLevel
          /\ u.techLevel <= Max(p.techLevel, q.techLevel)

\* a unit that grew by merging units of different tech levels and whose tech
\* level lies strictly between those of the last two operands
TechLevelBlended ==
    /\ op = "merge"
    /\ Population(p) > 1 /\ Population(q) > 0
    /\ Min(p.techLevel, q.techLevel) < u.techLevel
    /\ u.techLevel < Max(p.techLevel, q.techLevel)

\* C3: Merge of two units with nonzero population yields a unit whose
\* population is the sum of theirs, and after any sequence of merges the
\* population of the unit is the sum of the populations merged into it.
MergeConservesPopulation ==
    /\ MergedNonzero => Population(u) = Population(p) + Population(q)
    /\ Population(u) = total

\* several merges have accumulated units, some of them with rebels moved by
\* a loss of tech level
PopulationAccumulated ==
    /\ MergedNonzero
    /\ total > 300
    /\ p.techLevel # q.techLevel
    /\ u.rebel > p.rebel + q.rebel + 1

\* C4 as stated: Merge(x, empty) = x and Merge(empty, x) = x in all three
\* fields for every unit x, units with zero population included, and every
\* empty unit, whatever its tech level.
MergeIdentityAnyUnit ==
    op = "merge" =>
        /\ IsEmpty(q) => u = p
        /\ IsEmpty(p) => u = q

\* C4 as amended: Merge(empty, x) = x for every unit x; Merge(x, empty) = x
\* for every x with nonzero population; when x has zero population too,
\* Merge(x, empty) is the argument empty: it equals x in loyal and rebel and
\* carries the tech level of empty.
MergeIdentity ==
    op = "merge" =>
        /\ IsEmpty(p) => u = q
        /\ (IsEmpty(q) /\ ~IsEmpty(p)) => u = p
        /\ (IsEmpty(q) /\ IsEmpty(p)) =>
               /\ u.loyal = p.loyal /\ u.rebel = p.rebel
               /\ u.techLevel = q.techLevel

\* a unit with rebels was merged with an empty unit of another tech level
MergedWithEmpty ==
    /\ op = "merge"
    /\ IsEmpty(q) /\ p.loyal > 0 /\ p.rebel > 0
    /\ p.techLevel # q.techLevel
    /\ u = p

\* C5: for operands with nonzero population the merged tech level is the
\* common tech level when they agree, and otherwise the floor of the
\* population-weighted average: (100,2)+(100,4) -> 3, (100,2)+(100,6) -> 4,
\* (300,2)+(100,6) -> 3, (100,10)+(1000,1) -> 1.
MergeTechLevelIsFlooredAverage ==
    MergedNonzero =>
        LET weighted == Population(p) * p.techLevel + Population(q) * q.techLevel
            people   == Population(p) + Population(q)
        IN  /\ p.techLevel = q.techLevel => u.techLevel = p.techLevel
            /\ p.techLevel # q.techLevel =>
                   /\ u.techLevel * people <= weighted
                   /\ weighted < (u.techLevel + 1) * people
            /\ (p = NewCivilian(100, 2) /\ q = NewCivilian(100, 2)) => u.techLevel = 2
            /\ (p = NewCivilian(100, 2) /\ q = NewCivilian(100, 4)) => u.techLevel = 3
            /\ (p = NewCivilian(100, 2) /\ q = NewCivilian(100, 6)) => u.techLevel = 4
            /\ (p = NewCivilian(300, 2) /\ q = NewCivilian(100, 6)) => u.techLevel = 3
            /\ (p = NewCivilian(100, 10) /\ q = NewCivilian(1000, 1)) => u.techLevel = 1

\* the test's last case: the weighted average 1.81 is floored to 1
MergedTechLevelFloored ==
    /\ op = "merge"
    /\ p = NewCivilian(100, 10) /\ q = NewCivilian(1000, 1)
    /\ u.techLevel = 1

\* the operands whose tech level is above the merged tech level
LosingOperands == {x \in {p, q} : x.techLevel > u.techLevel}

\* max(1, h.rebel * (h.techLevel - n) / 100) for the operand h that lost
\* tech levels, 1 when there is none
ExpectedDeltaRebels ==
    IF LosingOperands = {} THEN 1
    ELSE LET h == CHOOSE x \in LosingOperands : TRUE
         IN  Max(1, (h.rebel * (h.techLevel - u.techLevel)) \div 100)

\* C6: for operands with nonzero population, at most one operand has a tech
\* level above the merged one; deltaRebels is max(1, h.rebel * (h.techLevel
\* - n) / 100) for that operand h (1 when there is none), whichever side of
\* the call h is on; rebel = p.rebel + q.rebel + deltaRebels and
\* loyal = p.loyal + q.loyal - deltaRebels.
MergeDiscontent ==
    MergedNonzero =>
        /\ Cardinality(LosingOperands) <= 1
        /\ u.rebel = p.rebel + q.rebel + ExpectedDeltaRebels
        /\ u.loyal = p.loyal + q.loyal - ExpectedDeltaRebels

\* the argument of the call lost tech levels and its rebels, not the
\* receiver's, set a deltaRebels above 1
ArgumentLostTechLevels ==
    /\ MergedNonzero
    /\ q.techLevel > u.techLevel
    /\ p.rebel = 0
    /\ u.rebel >= p.rebel + q.rebel + 2

----------------------------------------------------------------------------
(* Properties of the rate functions *)

\* naturalBirthRate was called with isOnShip false and a tech level in [0,10]
BirthCalledOffShip ==
    op = "birth" /\ ~args.isOnShip /\ args.techLevel \in TechLevels

\* C7: naturalBirthRate returns exactly 0 whenever isOnShip is true, whatever
\* the other arguments, values out of range included, and never returns 0
\* when isOnShip is false.
BirthRateZeroExactlyOnShip ==
    op = "birth" =>
        /\ ret.returned
        /\ args.isOnShip => ret.value = 0
        /\ ~args.isOnShip => ret.value # 0

\* a call aboard a ship with every other argument out of range
BirthCalledOnShipOutOfRange ==
    /\ op = "birth"
    /\ args.isOnShip /\ args.isResortColony
    /\ args.techLevel > MaxTech
    /\ args.standardOfLiving > 3000
    /\ args.pctCapacity < 10
    /\ ret.value = 0

\* x saturated to [lo, hi]
Saturated(x, lo, hi) == Max(lo, Min(x, hi))

\* the band tables of the birth rate, multipliers in hundredths
BirthTableS(s) ==
    CASE s < 250               -> 150
      [] s >= 250 /\ s < 800   -> 125
      [] s >= 800 /\ s < 1200  -> 100
      [] s = 1200              -> 100
      [] s > 1200              -> 75

BirthTableC(c) ==
    CASE c < 250              -> 125
      [] c >= 250 /\ c < 400  -> 110
      [] c >= 400 /\ c < 650  -> 100
      [] c >= 650 /\ c < 700  -> 90
      [] c >= 700 /\ c < 800  -> 60
      [] c >= 800 /\ c < 900  -> 25
      [] c >= 900 /\ c < 950  -> 10
      [] c >= 950             -> 5

\* clamp(B * S * C, 0.0025, 0.10) for the arguments of the call
BirthTableRate ==
    LET B == Saturated((11 - args.techLevel) * R(1, 10), R(25, 10000), R(10, 100))
             * (IF args.isResortColony THEN 2 ELSE 1)
        S == BirthTableS(Saturated(args.standardOfLiving, 10, 3000))
        C == BirthTableC(Saturated(args.pctCapacity, 10, 1000))
    IN  Saturated((((B * S) \div 100) * C) \div 100, R(25, 10000), R(10, 100))

BirthArgs(t, s, c) ==
    [techLevel |-> t, standardOfLiving |-> s, pctCapacity |-> c,
     isOnShip |-> FALSE, isResortColony |-> FALSE]

\* C8: off ship and for a tech level in [0,10] the birth rate is
\* clamp(B * S * C, 0.0025, 0.10) with B, S and C from the band tables; it
\* lies in [0.0025, 0.10]; (1, 1, 0.6) -> 0.10, (2, 0.5, 0.8) -> 0.03125,
\* (3, 0.75, 0.5) -> 0.10, (4, 1.25, 0.3) -> 0.0825, (10, 2, 0.9) -> 0.0075.
BirthRateMatchesTables ==
    BirthCalledOffShip =>
        /\ ret.value = BirthTableRate
        /\ R(25, 10000) <= ret.value /\ ret.value <= R(10, 100)
        /\ args = BirthArgs(1, 1000, 600) => ret.value = R(10, 100)
        /\ args = BirthArgs(2, 500, 800) => ret.value = R(3125, 100000)
        /\ args = BirthArgs(3, 750, 500) => ret.value = R(10, 100)
        /\ args = BirthArgs(4, 1250, 300) => ret.value = R(825, 10000)
        /\ args = BirthArgs(10, 2000, 900) => ret.value = R(75, 10000)

\* the test's second case, on the edge of a crowding band
BirthRateOnBandEdge ==
    /\ op = "birth"
    /\ args = BirthArgs(2, 500, 800)
    /\ ret.value = R(3125, 100000)

\* C9: for tech levels a < b in [0,10] the base birth rate of a is strictly
\* greater than the base birth rate of b.
LowerTechHigherBaseFertility ==
    BirthCalledOffShip =>
        \A b \in TechLevels :
            args.techLevel < b => BirthBaseRate(args.techLevel) > BirthBaseRate(b)

\* C10: naturalDeathRate with a tech level outside [0,10] panics and returns
\* no value; with a tech level in [0,10] it does not panic and returns a
\* value.
DeathRatePanicsOutsideRange ==
    op = "death" =>
        /\ args.techLevel \notin TechLevels => (ret.panic /\ ~ret.returned)
        /\ args.techLevel \in TechLevels => (~ret.panic /\ ret.returned)

\* a call with tech level 11 and inputs that are otherwise in range
DeathCalledAboveRange ==
    /\ op = "death"
    /\ args.techLevel = MaxTech + 1
    /\ args.standardOfLiving = 1000
    /\ args.pctCapacity = 500
    /\ ret.panic

\* naturalDeathRate was called with a tech level in [0,10]
DeathCalledInRange == op = "death" /\ args.techLevel \in TechLevels

\* the tables of the death rate: base rates in 1/100000 by tech level,
\* multipliers in thousandths
DeathTableD == <<1500, 1400, 1300, 1200, 1100, 1000, 900, 800, 700, 600, 500>>

DeathTableS(s) ==
    CASE s > 1500              -> 975
      [] s > 1250 /\ s <= 1500 -> 950
      [] s > 990 /\ s <= 1250  -> 1000
      [] s > 875 /\ s <= 990   -> 1025
      [] s > 750 /\ s <= 875   -> 1050
      [] s > 625 /\ s <= 750   -> 1075
      [] s > 500 /\ s <= 625   -> 1100
      [] s > 375 /\ s <= 500   -> 1125
      [] s > 250 /\ s <= 375   -> 1150
      [] s > 125 /\ s <= 250   -> 1175
      [] s <= 125              -> 1000

DeathTableC(c) ==
    CASE c > 2000              -> 3000
      [] c > 1500 /\ c <= 2000 -> 2000
      [] c > 990 /\ c <= 1500  -> 1500
      [] c > 975 /\ c <= 990   -> 1250
      [] c > 950 /\ c <= 975   -> 1100
      [] c > 925 /\ c <= 950   -> 1025
      [] c > 900 /\ c <= 925   -> 1010
      [] c <= 900              -> 1000

\* D[t] * S for the arguments of the call
DeathTableBeforeCrowding ==
    (R(DeathTableD[args.techLevel + 1], 100000)
       * DeathTableS(Saturated(args.standardOfLiving, 10, 3000))) \div 1000

\* the death rate when the crowding multiplier is c thousandths
DeathTableRate(c) ==
    Saturated((DeathTableBeforeCrowding * c) \div 1000,
              R(2500, 1000000), R(750000, 1000000))

\* C11: for a tech level t in [0,10] the death rate is
\* clamp(D[t] * S * C, 0.0025, 0.75) with D, S from the tables and C the
\* crowding multiplier of pctCapacity saturated to [0.01, 1.0]; it lies in
\* [0.0025, 0.75].
DeathRateMatchesTables ==
    DeathCalledInRange =>
        /\ ret.returned
        /\ ret.value = DeathTableRate(DeathTableC(Saturated(args.pctCapacity, 10, 1000)))
        /\ R(2500, 1000000) <= ret.value /\ ret.value <= R(750000, 1000000)

\* tech level 3, standard of living 0.625 (x1.100), capacity 0.951 (x1.100):
\* 0.012 * 1.1 * 1.1 = 0.01452
DeathRateBothBandsApplied ==
    /\ op = "death"
    /\ args.techLevel = 3
    /\ args.standardOfLiving = 625
    /\ args.pctCapacity = 951
    /\ ret.value = R(1452, 100000)

\* C12: a call of naturalDeathRate with pctCapacity > 2.000 multiplies the
\* death rate by 3.000 and one with 1.500 < pctCapacity <= 2.000 multiplies
\* it by 2.000.
DeathCrowdingAboveCapacity ==
    DeathCalledInRange =>
        /\ args.pctCapacity > 2000 => ret.value = DeathTableRate(3000)
        /\ (args.pctCapacity > 1500 /\ args.pctCapacity <= 2000) =>
               ret.value = DeathTableRate(2000)

\* the birth rate before the standard-of-living band is applied
BirthTableB ==
    Saturated((11 - args.techLevel) * R(1, 10), R(25, 10000), R(10, 100))
      * (IF args.isResortColony THEN 2 ELSE 1)

\* C15: off ship, every standardOfLiving strictly above 1.20, values above
\* 1.75 and above the saturation bound 3.0 included, gets the multiplier
\* x0.75, and for no input is the multiplier x0.5 applied.
BirthStandardOfLivingFirstMatch ==
    (op = "birth" /\ ~args.isOnShip) =>
        LET sol == Saturated(args.standardOfLiving, 10, 3000)
            C   == BirthTableC(Saturated(args.pctCapacity, 10, 1000))
        IN  /\ BirthStandardOfLiving(BirthTableB, sol) # (BirthTableB * 50) \div 100
            /\ args.standardOfLiving > 1200 =>
                   /\ BirthStandardOfLiving(BirthTableB, sol) = (BirthTableB * 75) \div 100
                   /\ ret.value = Saturated(((((BirthTableB * 75) \div 100) * C) \div 100),
                                            R(25, 10000), R(10, 100))

\* a call with a standard of living above 1.75: 0.10 * 0.75 * 0.60 = 0.045
BirthCalledAboveDeadBand ==
    /\ op = "birth"
    /\ args = BirthArgs(5, 1751, 700)
    /\ ret.value = R(45, 1000)

\* C18: for a Civilian with tech level t in [0,10] and every standardOfLiving
\* and pctCapacity, NaturalBirthRate equals naturalBirthRate(t, sol, cap,
\* false, false) and NaturalDeathRate equals naturalDeathRate(t, sol, cap);
\* for t outside [0,10] both death-rate forms panic.
MethodsAgreeWithFunctions ==
    /\ (op = "civilian-birth" /\ args.techLevel \in TechLevels) =>
           ret = Returned(naturalBirthRate(args.techLevel, args.standardOfLiving,
                                           args.pctCapacity, FALSE, FALSE))
    /\ (op = "civilian-death" /\ args.techLevel \in TechLevels) =>
           /\ ret.returned
           /\ ret = naturalDeathRate(args.techLevel, args.standardOfLiving,
                                      args.pctCapacity)
    /\ (op \in {"death", "civilian-death"} /\ args.techLevel \notin TechLevels) =>
           (ret.panic /\ ~ret.returned)

\* the method was called on a unit of tech level 6 and returned
\* 0.009 * 1.0 * 1.25 = 0.01125
CivilianDeathRateCalled ==
    /\ op = "civilian-death"
    /\ u = NewCivilian(RatePop, 6)
    /\ args.standardOfLiving = 1000
    /\ args.pctCapacity = 990
    /\ ret.value = R(1125, 100000)

\* C16: for units p and q with positive population, non-negative headcounts
\* and tech levels in [0,10], Merge(p, q) and Merge(q, p) are equal in
\* loyal, rebel and techLevel.
MergeCommutes ==
    MergedNonzero =>
        LET w == Merge(q, p)
        IN  /\ u.loyal = w.loyal
            /\ u.rebel = w.rebel
            /\ u.techLevel = w.techLevel

\* both operands have rebels, the receiver lost tech levels and more than
\* one citizen turned rebel
MergedRebelsBothSides ==
    /\ MergedNonzero
    /\ p.rebel > 1 /\ q.rebel > 1 /\ p.rebel # q.rebel
    /\ p.techLevel > u.techLevel
    /\ u.rebel > p.rebel + q.rebel + 1
    /\ u = Merge(q, p)

\* C17: the merged tech level depends on the grouping: for NewCivilian(100,1),
\* NewCivilian(100,0) and NewCivilian(100,2) the two groupings end with
\* different tech levels, while every two groupings end with the same
\* population.
MergeTechLevelDependsOnGrouping ==
    op = "grouped" =>
        /\ Population(u) = Population(other)
        /\ (/\ p = NewCivilian(100, 1)
            /\ q = NewCivilian(100, 0)
            /\ third = NewCivilian(100, 2)) => u.techLevel # other.techLevel

\* the example: (a + b) + c has tech level 0 and a + (b + c) has tech level 1
GroupingsDiffer ==
    /\ op = "grouped"
    /\ p = NewCivilian(100, 1) /\ q = NewCivilian(100, 0) /\ third = NewCivilian(100, 2)
    /\ u.techLevel = 0
    /\ other.techLevel = 1
    /\ Population(u) = 300 /\ Population(other) = 300

----------------------------------------------------------------------------
(* Properties of the JSON encoding *)

\* C13: decoding the encoding of a unit succeeds and leaves the receiver
\* with the loyal, rebel and techLevel of that unit, whatever the receiver
\* held before.
EncodeDecodeRoundTrip ==
    op = "roundtrip" =>
        /\ ret.returned /\ ret.value = Nil
        /\ u.loyal = p.loyal
        /\ u.rebel = p.rebel
        /\ u.techLevel = p.techLevel

\* a unit with a negative headcount and a tech level of two digits was
\* decoded into a receiver that held other contents
RoundTripOverPriorContents ==
    /\ op = "roundtrip"
    /\ p = Civ(0 - 3, 100000, 12)
    /\ q = Civ(5, 6, 7)
    /\ u = p

====
